---- MODULE Spec2Model ----
(***************************************************************************)
(* Model of channeldb/migrations.go: the three schema migration steps      *)
(*   migrateNodeAndEdgeUpdateIndex       (version 0 -> 1)                  *)
(*   migrateAddInvoiceWithChannelPoint   (version 1 -> 2)                  *)
(*   migrateAddTypeToForwardEvent        (version 2 -> 3)                  *)
(* run by the migration orchestrator against a store of nested, ordered,   *)
(* byte-keyed buckets.  Byte strings are sequences of numbers 0..255.      *)
(* The orchestrator and the record codecs are not part of migrations.go;   *)
(* they are modelled from the specification (sections 4.1, 4.3-4.5).       *)
(***************************************************************************)
EXTENDS Integers, Sequences, FiniteSets, TLC

VARIABLES
    db,        \* the committed store: [ver |-> version marker, root |-> buckets]
    tx,        \* root of the open write transaction (working copy)
    pc,        \* position of the orchestrator / of the running step
    step,      \* from-version of the step invoked last
    cursor,    \* ForEach cursor: key visited last, <<>> before the first
    result,    \* outcome of the step invoked last: none, ok, error, panic
    run,       \* number of the orchestrator run
    pre,       \* history: the committed store when the last step began
    runStart,  \* history: the committed store when the current run began
    invoked,   \* history: from-versions of the steps invoked in this run
    visited,   \* history: <<bucket, key>> of the entries visited in this step
    decoded,   \* history: decode attempts of this step
    failedAt   \* history: <<bucket, key>> of the visit that failed, or <<>>

vars == <<db, tx, pc, step, cursor, result, run, pre, runStart, invoked,
          visited, decoded, failedAt>>

----------------------------------------------------------------------------
(* Bounds of the model.                                                    *)

\* Largest number of entries (and explicitly present empty buckets) of the
\* initial store.
MaxItems == 3

\* Number of successive runs of the orchestrator.
MaxRuns == 2

\* The most entries of a store whose runs are checked for termination.
MaxFairItems == 2

----------------------------------------------------------------------------
(* Program constants.                                                      *)

\* len(nodePub) != 33
NodeKeyLen == 33

\* len(edgeKey) != 41
EdgeKeyLen == 41

\* updateTime := nodeInfo[:8];  var indexKey [8 + 33]byte
TimeLen == 8

\* Schema versions named by the steps (their values are declared outside
\* migrations.go; the specification numbers the steps consecutively).
nodeAndEdgeUpdateIndexVersion == 1

invoiceWithChannelPointVersion == 2

forwardEventWithType == 3

\* Classification of a forward that succeeded (declared outside
\* migrations.go); a decoder of the prior version leaves Type at zero.
SuccessForward == 1

\* Bucket names.  The two index buckets live inside the node and the edge
\* bucket, next to the records; their names are neither 33 nor 41 bytes.
nodeBucket == "nodes"

edgeBucket == "edges"

paymentBucket == "payments"

invoiceBucket == "invoices"

forwardingLogBucket == "fwdlog"

nodeUpdateIndexBucket == <<110, 117, 105>>

edgeUpdateIndexBucket == <<101, 117, 105>>

----------------------------------------------------------------------------
(* Byte strings.                                                           *)

Min(a, b) == IF a < b THEN a ELSE b

\* n shifted right by k bytes.
RECURSIVE ShiftBytes(_, _)
ShiftBytes(n, k) == IF k = 0 THEN n ELSE ShiftBytes(n \div 256, k - 1)

\* byteOrder.PutUint64: 8 bytes, most significant first.  (The times of
\* the model are below 2^31.)
PutUint64(n) == [i \in 1..TimeLen |-> ShiftBytes(n, TimeLen - i) % 256]

\* byteOrder.Uint64 of the first 8 bytes of s.
RECURSIVE Uint64Upto(_, _)
Uint64Upto(s, n) == IF n = 0 THEN 0 ELSE 256 * Uint64Upto(s, n - 1) + s[n]

Uint64(s) == Uint64Upto(s, TimeLen)

\* Lexicographic order on raw bytes: the key order of a bucket.
LexLess(a, b) ==
    \/ \E i \in 1..Min(Len(a), Len(b)) :
          /\ a[i] < b[i]
          /\ \A j \in 1..(i - 1) : a[j] = b[j]
    \/ /\ Len(a) < Len(b)
       /\ \A j \in 1..Len(a) : a[j] = b[j]

----------------------------------------------------------------------------
(* The store: a bucket is a function from keys to entries; an entry is a   *)
(* leaf value or a nested bucket.                                          *)

Leaf(v) == [kind |-> "leaf", val |-> v, sub |-> <<>>]

Nested(b) == [kind |-> "bucket", val |-> <<>>, sub |-> b]

EmptyBucket == <<>>

\* The value ForEach hands to the visitor: nil for a nested bucket.
IsNil(e) == e.kind = "bucket"

ValueOf(e) == IF IsNil(e) THEN <<>> ELSE e.val

\* Bucket.Put: fails when the key names a nested bucket
\* (ErrIncompatibleValue), else inserts or overwrites the leaf.
PutFails(b, k) == k \in DOMAIN b /\ b[k].kind = "bucket"

BucketPut(b, k, v) == (k :> Leaf(v)) @@ b

\* Faulty variant of CreateFails: creation fails whenever the key exists, as
\* Bucket.CreateBucket does.
CreateFailsIfExists(b, k) == k \in DOMAIN b

\* Bucket.CreateBucketIfNotExists: fails when the key names a leaf.
CreateFails(b, k) == k \in DOMAIN b /\ b[k].kind = "leaf"

CreateBucketIfNotExists(b, k) ==
    IF k \in DOMAIN b THEN b ELSE (k :> Nested(EmptyBucket)) @@ b

\* tx.Bucket(name) / tx.CreateBucketIfNotExists(name) on the root.
HasBucket(root, name) == name \in DOMAIN root

RootCreate(root, name) ==
    IF name \in DOMAIN root THEN root ELSE (name :> EmptyBucket) @@ root

\* ForEach: the entries in key order.  The cursor moves to the least key
\* greater than the one visited last.
KeysAfter(b, c) == {k \in DOMAIN b : LexLess(c, k)}

HasNext(b, c) == KeysAfter(b, c) # {}

NextKey(b, c) ==
    CHOOSE k \in KeysAfter(b, c) : \A o \in KeysAfter(b, c) : o = k \/ LexLess(k, o)

\* The leaf keys of a bucket.
LeafKeys(b) == {k \in DOMAIN b : b[k].kind = "leaf"}

----------------------------------------------------------------------------
(* Record codecs (declared outside migrations.go).  Each decoder reads the *)
(* fields from the front of the bytes and fails when the bytes run out;    *)
(* bytes that follow the last field are left unread.                       *)

\* Edge policy: a length-prefixed signature, then the 8-byte update time:
\* the time is not at a fixed offset.
serializeChanEdgePolicy(sig, lastUpdate) ==
    <<Len(sig)>> \o sig \o PutUint64(lastUpdate)

deserializeChanEdgePolicy(b) ==
    IF Len(b) < 1 \/ Len(b) < 1 + b[1] + TimeLen
    THEN [ok |-> FALSE, LastUpdate |-> 0]
    ELSE [ok |-> TRUE,
          LastUpdate |-> Uint64(SubSeq(b, 2 + b[1], 1 + b[1] + TimeLen))]

\* Invoice: a length-prefixed memo and an amount; from
\* invoiceWithChannelPointVersion on, a length-prefixed channel point
\* follows.  A decoder of the older version leaves the channel point empty.
NoInvoice == [Memo |-> <<>>, Value |-> 0, ChannelPoint |-> <<>>]

serializeInvoice(i, version) ==
    <<Len(i.Memo)>> \o i.Memo \o <<i.Value>> \o
    (IF version >= invoiceWithChannelPointVersion
     THEN <<Len(i.ChannelPoint)>> \o i.ChannelPoint
     ELSE <<>>)

\* The invoice read from the front of b, and the bytes that follow it.
deserializeInvoice(b, version) ==
    IF Len(b) < 1 \/ Len(b) < b[1] + 2
    THEN [ok |-> FALSE, inv |-> NoInvoice, rest |-> <<>>]
    ELSE LET memo == SubSeq(b, 2, 1 + b[1])
             value == b[b[1] + 2]
             r == SubSeq(b, b[1] + 3, Len(b))
         IN  IF version < invoiceWithChannelPointVersion
             THEN [ok |-> TRUE,
                   inv |-> [Memo |-> memo, Value |-> value, ChannelPoint |-> <<>>],
                   rest |-> r]
             ELSE IF Len(r) < 1 \/ Len(r) < 1 + r[1]
             THEN [ok |-> FALSE, inv |-> NoInvoice, rest |-> <<>>]
             ELSE [ok |-> TRUE,
                   inv |-> [Memo |-> memo, Value |-> value,
                            ChannelPoint |-> SubSeq(r, 2, 1 + r[1])],
                   rest |-> SubSeq(r, 2 + r[1], Len(r))]

\* Outgoing payment: the invoice it pays, then the fee.
NoPayment == [Invoice |-> NoInvoice, Fee |-> 0]

serializeOutgoingPayment(p, version) ==
    serializeInvoice(p.Invoice, version) \o <<p.Fee>>

deserializeOutgoingPayment(b, version) ==
    LET i == deserializeInvoice(b, version)
    IN  IF ~i.ok \/ Len(i.rest) < 1
        THEN [ok |-> FALSE, pay |-> NoPayment]
        ELSE [ok |-> TRUE, pay |-> [Invoice |-> i.inv, Fee |-> i.rest[1]]]

\* Forwarding event: the two amounts; from forwardEventWithType on, the
\* type follows.  The decoder fills the event it is given and leaves Type
\* alone when the version has none.
ZeroEvent == [AmtIn |-> 0, AmtOut |-> 0, Type |-> 0]

encodeForwardingEvent(e, version) ==
    <<e.AmtIn, e.AmtOut>> \o
    (IF version >= forwardEventWithType THEN <<e.Type>> ELSE <<>>)

decodeForwardingEvent(b, event, version) ==
    IF Len(b) < 2
    THEN [ok |-> FALSE, event |-> event]
    ELSE IF version < forwardEventWithType
    THEN [ok |-> TRUE, event |-> [event EXCEPT !.AmtIn = b[1], !.AmtOut = b[2]]]
    ELSE IF Len(b) < 3
    THEN [ok |-> FALSE, event |-> event]
    ELSE [ok |-> TRUE, event |-> [AmtIn |-> b[1], AmtOut |-> b[2], Type |-> b[3]]]

----------------------------------------------------------------------------
(* The visitors of the five scans.  Each takes the root of the open        *)
(* transaction and the key being visited and yields the visitor's outcome  *)
(* (ok: returned nil, error: returned an error, panic: the slice           *)
(* expression nodeInfo[:8] ran past the value), the root after its writes  *)
(* and the reads and decodes it made of the value.                         *)

Outcome(res, root, dec) == [res |-> res, root |-> root, dec |-> dec]

\* A read or decode of the value under key k of bucket b; ver is the
\* version handed to the decoder, -1 when the decoder takes none.
Access(b, k, ver) == [b |-> b, k |-> k, ver |-> ver]

\* Faulty variant of nodeIndexKey: the identity comes first.
nodeIndexKeyPubFirst(nodePub, nodeInfo) == nodePub \o SubSeq(nodeInfo, 1, TimeLen)

\* The node-update-index key (updateTime || nodePub).
nodeIndexKey(nodePub, nodeInfo) == SubSeq(nodeInfo, 1, TimeLen) \o nodePub

\* Faulty variant of edgeIndexKey: the channel identifier is taken from the
\* front of the edge key.
edgeIndexKeyFromFront(edgeKey, lastUpdate) ==
    PutUint64(lastUpdate) \o SubSeq(edgeKey, 1, TimeLen)

\* Faulty variant of edgeIndexKey: the channel identifier comes first.
edgeIndexKeyChanFirst(edgeKey, lastUpdate) ==
    SubSeq(edgeKey, NodeKeyLen + 1, Len(edgeKey)) \o PutUint64(lastUpdate)

\* The edge-update-index key (updateTime || chanID); chanID := edgeKey[33:].
edgeIndexKey(edgeKey, lastUpdate) ==
    PutUint64(lastUpdate) \o SubSeq(edgeKey, NodeKeyLen + 1, Len(edgeKey))

\* Faulty variant of PutIndex: the index sub-bucket is deleted and created
\* anew for each put.
PutIndexFresh(root, b, sub, k) ==
    [root EXCEPT ![b] =
        [@ EXCEPT ![sub] = Nested(BucketPut(EmptyBucket, k, <<>>))]]

\* The root with key k of sub-bucket sub of bucket b put to the empty value.
PutIndex(root, b, sub, k) ==
    [root EXCEPT ![b] =
        [@ EXCEPT ![sub] = Nested(BucketPut(@.sub, k, <<>>))]]

\* The root with key k of bucket b put to value v.
PutValue(root, b, k, v) == [root EXCEPT ![b] = BucketPut(@, k, v)]

\* Faulty variant of nodeVisitor: the width of the key is not checked.
nodeVisitorAnyKey(root, nodePub) ==
    LET nodeInfo == ValueOf(root[nodeBucket][nodePub])
        index == root[nodeBucket][nodeUpdateIndexBucket].sub
    IN  IF Len(nodeInfo) < TimeLen
        THEN Outcome("panic", root, {Access(nodeBucket, nodePub, -1)})
        ELSE IF PutFails(index, nodeIndexKey(nodePub, nodeInfo))
        THEN Outcome("error", root, {Access(nodeBucket, nodePub, -1)})
        ELSE Outcome("ok",
                     PutIndex(root, nodeBucket, nodeUpdateIndexBucket,
                              nodeIndexKey(nodePub, nodeInfo)),
                     {Access(nodeBucket, nodePub, -1)})

\* Faulty variant of nodeVisitor: the index key is put into the node bucket
\* itself, next to the node records.
nodeVisitorPutsInNodes(root, nodePub) ==
    LET nodeInfo == ValueOf(root[nodeBucket][nodePub])
    IN  IF Len(nodePub) # NodeKeyLen
        THEN Outcome("ok", root, {})
        ELSE IF Len(nodeInfo) < TimeLen
        THEN Outcome("panic", root, {Access(nodeBucket, nodePub, -1)})
        ELSE IF PutFails(root[nodeBucket], nodeIndexKey(nodePub, nodeInfo))
        THEN Outcome("error", root, {Access(nodeBucket, nodePub, -1)})
        ELSE Outcome("ok",
                     PutValue(root, nodeBucket, nodeIndexKey(nodePub, nodeInfo), <<>>),
                     {Access(nodeBucket, nodePub, -1)})

\* nodes.ForEach(func(nodePub, nodeInfo []byte) error {...})
nodeVisitor(root, nodePub) ==
    LET nodeInfo == ValueOf(root[nodeBucket][nodePub])
        index == root[nodeBucket][nodeUpdateIndexBucket].sub
    IN  IF Len(nodePub) # NodeKeyLen
        THEN Outcome("ok", root, {})
        ELSE IF Len(nodeInfo) < TimeLen
        THEN Outcome("panic", root, {Access(nodeBucket, nodePub, -1)})
        ELSE IF PutFails(index, nodeIndexKey(nodePub, nodeInfo))
        THEN Outcome("error", root, {Access(nodeBucket, nodePub, -1)})
        ELSE Outcome("ok",
                     PutIndex(root, nodeBucket, nodeUpdateIndexBucket,
                              nodeIndexKey(nodePub, nodeInfo)),
                     {Access(nodeBucket, nodePub, -1)})

\* Faulty variant of edgeVisitor: a policy that does not decode is skipped
\* instead of failing the step.
edgeVisitorSkipsUndecodable(root, edgeKey) ==
    LET edgePolicyBytes == ValueOf(root[edgeBucket][edgeKey])
        edgePolicy == deserializeChanEdgePolicy(edgePolicyBytes)
        index == root[edgeBucket][edgeUpdateIndexBucket].sub
    IN  IF Len(edgeKey) # EdgeKeyLen \/ ~edgePolicy.ok
        THEN Outcome("ok", root, {})
        ELSE IF PutFails(index, edgeIndexKey(edgeKey, edgePolicy.LastUpdate))
        THEN Outcome("error", root, {Access(edgeBucket, edgeKey, -1)})
        ELSE Outcome("ok",
                     PutIndex(root, edgeBucket, edgeUpdateIndexBucket,
                              edgeIndexKey(edgeKey, edgePolicy.LastUpdate)),
                     {Access(edgeBucket, edgeKey, -1)})

\* Faulty variant of edgeVisitor: the index key is put into the edge bucket
\* itself, the bucket being scanned, instead of its index sub-bucket.
edgeVisitorPutsInEdges(root, edgeKey) ==
    LET edgePolicyBytes == ValueOf(root[edgeBucket][edgeKey])
        edgePolicy == deserializeChanEdgePolicy(edgePolicyBytes)
    IN  IF Len(edgeKey) # EdgeKeyLen
        THEN Outcome("ok", root, {})
        ELSE IF ~edgePolicy.ok
        THEN Outcome("error", root, {Access(edgeBucket, edgeKey, -1)})
        ELSE IF PutFails(root[edgeBucket], edgeIndexKey(edgeKey, edgePolicy.LastUpdate))
        THEN Outcome("error", root, {Access(edgeBucket, edgeKey, -1)})
        ELSE Outcome("ok",
                     PutValue(root, edgeBucket,
                              edgeIndexKey(edgeKey, edgePolicy.LastUpdate), <<>>),
                     {Access(edgeBucket, edgeKey, -1)})

\* edges.ForEach(func(edgeKey, edgePolicyBytes []byte) error {...})
edgeVisitor(root, edgeKey) ==
    LET edgePolicyBytes == ValueOf(root[edgeBucket][edgeKey])
        edgePolicy == deserializeChanEdgePolicy(edgePolicyBytes)
        index == root[edgeBucket][edgeUpdateIndexBucket].sub
    IN  IF Len(edgeKey) # EdgeKeyLen
        THEN Outcome("ok", root, {})
        ELSE IF ~edgePolicy.ok
        THEN Outcome("error", root, {Access(edgeBucket, edgeKey, -1)})
        ELSE IF PutFails(index, edgeIndexKey(edgeKey, edgePolicy.LastUpdate))
        THEN Outcome("error", root, {Access(edgeBucket, edgeKey, -1)})
        ELSE Outcome("ok",
                     PutIndex(root, edgeBucket, edgeUpdateIndexBucket,
                              edgeIndexKey(edgeKey, edgePolicy.LastUpdate)),
                     {Access(edgeBucket, edgeKey, -1)})

\* Faulty variant of paymentVisitor: the record is decoded with the new
\* version instead of the prior one.
paymentVisitorDecodesNew(root, paymentKey) ==
    LET e == root[paymentBucket][paymentKey]
        d == deserializeOutgoingPayment(ValueOf(e), invoiceWithChannelPointVersion)
        acc == {Access(paymentBucket, paymentKey, invoiceWithChannelPointVersion)}
    IN  IF IsNil(e)
        THEN Outcome("ok", root, {})
        ELSE IF ~d.ok
        THEN Outcome("error", root, acc)
        ELSE Outcome("ok",
                     PutValue(root, paymentBucket, paymentKey,
                              serializeOutgoingPayment(d.pay,
                                  invoiceWithChannelPointVersion)),
                     acc)

\* Faulty variant of paymentVisitor: a payment that does not decode is
\* skipped and the scan goes on.
paymentVisitorSkipsUndecodable(root, paymentKey) ==
    LET e == root[paymentBucket][paymentKey]
        d == deserializeOutgoingPayment(ValueOf(e), nodeAndEdgeUpdateIndexVersion)
        acc == {Access(paymentBucket, paymentKey, nodeAndEdgeUpdateIndexVersion)}
    IN  IF IsNil(e)
        THEN Outcome("ok", root, {})
        ELSE IF ~d.ok
        THEN Outcome("ok", root, acc)
        ELSE Outcome("ok",
                     PutValue(root, paymentBucket, paymentKey,
                              serializeOutgoingPayment(d.pay,
                                  invoiceWithChannelPointVersion)),
                     acc)

\* paymentsBucket.ForEach(func(paymentKey, paymentData []byte) error {...})
paymentVisitor(root, paymentKey) ==
    LET e == root[paymentBucket][paymentKey]
        d == deserializeOutgoingPayment(ValueOf(e), nodeAndEdgeUpdateIndexVersion)
        acc == {Access(paymentBucket, paymentKey, nodeAndEdgeUpdateIndexVersion)}
    IN  IF IsNil(e)
        THEN Outcome("ok", root, {})
        ELSE IF ~d.ok
        THEN Outcome("error", root, acc)
        ELSE Outcome("ok",
                     PutValue(root, paymentBucket, paymentKey,
                              serializeOutgoingPayment(d.pay,
                                  invoiceWithChannelPointVersion)),
                     acc)

\* Faulty variant of invoiceVisitor: an invoice that does not decode is
\* skipped instead of failing the step.
invoiceVisitorSkipsUndecodable(root, invoiceKey) ==
    LET e == root[invoiceBucket][invoiceKey]
        d == deserializeInvoice(ValueOf(e), nodeAndEdgeUpdateIndexVersion)
        acc == {Access(invoiceBucket, invoiceKey, nodeAndEdgeUpdateIndexVersion)}
    IN  IF IsNil(e)
        THEN Outcome("ok", root, {})
        ELSE IF ~d.ok
        THEN Outcome("ok", root, acc)
        ELSE Outcome("ok",
                     PutValue(root, invoiceBucket, invoiceKey,
                              serializeInvoice(d.inv, invoiceWithChannelPointVersion)),
                     acc)

\* Faulty variant of invoiceVisitor: the invoice is encoded with the prior
\* version again.
invoiceVisitorEncodesPrior(root, invoiceKey) ==
    LET e == root[invoiceBucket][invoiceKey]
        d == deserializeInvoice(ValueOf(e), nodeAndEdgeUpdateIndexVersion)
        acc == {Access(invoiceBucket, invoiceKey, nodeAndEdgeUpdateIndexVersion)}
    IN  IF IsNil(e)
        THEN Outcome("ok", root, {})
        ELSE IF ~d.ok
        THEN Outcome("error", root, acc)
        ELSE Outcome("ok",
                     PutValue(root, invoiceBucket, invoiceKey,
                              serializeInvoice(d.inv, nodeAndEdgeUpdateIndexVersion)),
                     acc)

\* invoiceBucket.ForEach(func(invoiceKey, invoiceData []byte) error {...})
invoiceVisitor(root, invoiceKey) ==
    LET e == root[invoiceBucket][invoiceKey]
        d == deserializeInvoice(ValueOf(e), nodeAndEdgeUpdateIndexVersion)
        acc == {Access(invoiceBucket, invoiceKey, nodeAndEdgeUpdateIndexVersion)}
    IN  IF IsNil(e)
        THEN Outcome("ok", root, {})
        ELSE IF ~d.ok
        THEN Outcome("error", root, acc)
        ELSE Outcome("ok",
                     PutValue(root, invoiceBucket, invoiceKey,
                              serializeInvoice(d.inv, invoiceWithChannelPointVersion)),
                     acc)

\* Faulty variant of forwardVisitor: an entry with a nil value is skipped,
\* as the visitors of the payments and the invoices do.
forwardVisitorSkipsNil(root, logTime) ==
    LET e == root[forwardingLogBucket][logTime]
        d == decodeForwardingEvent(ValueOf(e), ZeroEvent, forwardEventWithType - 1)
        event == [d.event EXCEPT !.Type = SuccessForward]
        acc == {Access(forwardingLogBucket, logTime, forwardEventWithType - 1)}
    IN  IF IsNil(e)
        THEN Outcome("ok", root, {})
        ELSE IF ~d.ok
        THEN Outcome("error", root, acc)
        ELSE Outcome("ok",
                     PutValue(root, forwardingLogBucket, logTime,
                              encodeForwardingEvent(event, forwardEventWithType)),
                     acc)

\* logBucket.ForEach(func(logTime, logData []byte) error {...}): no check
\* of the key or of a nil value comes before the decode.
forwardVisitor(root, logTime) ==
    LET e == root[forwardingLogBucket][logTime]
        d == decodeForwardingEvent(ValueOf(e), ZeroEvent, forwardEventWithType - 1)
        event == [d.event EXCEPT !.Type = SuccessForward]
        acc == {Access(forwardingLogBucket, logTime, forwardEventWithType - 1)}
    IN  IF ~d.ok
        THEN Outcome("error", root, acc)
        ELSE IF PutFails(root[forwardingLogBucket], logTime)
        THEN Outcome("error", root, acc)
        ELSE Outcome("ok",
                     PutValue(root, forwardingLogBucket, logTime,
                              encodeForwardingEvent(event, forwardEventWithType)),
                     acc)

----------------------------------------------------------------------------
(* The stores the orchestrator may be started on.                          *)

\* A 33-byte identity key and an 8-byte channel identifier.
Pub(b) == [i \in 1..NodeKeyLen |-> b]

ChanID(c) == PutUint64(c)

Item(b, k, e) == [b |-> b, k |-> k, e |-> e]

\* The bucket exists, whatever it holds (no entry has the empty key).
Exists(b) == Item(b, <<>>, Leaf(<<>>))

OldInvoice(memo, value) ==
    serializeInvoice([Memo |-> memo, Value |-> value, ChannelPoint |-> <<>>],
                     nodeAndEdgeUpdateIndexVersion)

OldEvent(amtIn, amtOut) ==
    encodeForwardingEvent([AmtIn |-> amtIn, AmtOut |-> amtOut, Type |-> 0],
                          forwardEventWithType - 1)

NodeItems ==
    { Item(nodeBucket, Pub(1), Leaf(PutUint64(256) \o <<7>>)),
      Item(nodeBucket, Pub(2), Leaf(PutUint64(2))),
      \* a value shorter than the 8-byte update time
      Item(nodeBucket, Pub(3), Leaf(<<1, 2, 3>>)),
      \* a key of another width
      Item(nodeBucket, <<115, 114, 99>>, Leaf(Pub(1))),
      \* a nested bucket whose name is 33 bytes long
      Item(nodeBucket, Pub(4), Nested(EmptyBucket)),
      \* the index exists already and holds an older entry
      Item(nodeBucket, nodeUpdateIndexBucket,
           Nested((PutUint64(1) \o Pub(1)) :> Leaf(<<>>))),
      \* the index holds a nested bucket where an index key will be put
      Item(nodeBucket, nodeUpdateIndexBucket,
           Nested((PutUint64(2) \o Pub(2)) :> Nested(EmptyBucket))) }

EdgeItems ==
    { Item(edgeBucket, Pub(1) \o ChanID(1), Leaf(serializeChanEdgePolicy(<<9>>, 256))),
      \* the policy of the other direction of the same channel
      Item(edgeBucket, Pub(2) \o ChanID(1), Leaf(serializeChanEdgePolicy(<<9, 9>>, 256))),
      Item(edgeBucket, Pub(1) \o ChanID(2), Leaf(serializeChanEdgePolicy(<<>>, 2))),
      \* bytes that are no edge policy
      Item(edgeBucket, Pub(2) \o ChanID(3), Leaf(<<5, 1>>)),
      \* a key of another width
      Item(edgeBucket, <<1>>, Leaf(<<0>>)),
      \* a nested bucket whose name is 41 bytes long
      Item(edgeBucket, Pub(3) \o ChanID(4), Nested(EmptyBucket)),
      \* the index exists already and holds an older entry
      Item(edgeBucket, edgeUpdateIndexBucket,
           Nested((PutUint64(1) \o ChanID(9)) :> Leaf(<<>>))) }

PaymentItems ==
    { Exists(paymentBucket),
      Item(paymentBucket, <<0, 1>>, Leaf(OldInvoice(<<77>>, 5) \o <<3>>)),
      Item(paymentBucket, <<0, 2>>, Leaf(<<4>>)),
      Item(paymentBucket, <<0, 3>>, Nested(EmptyBucket)) }

InvoiceItems ==
    { Exists(invoiceBucket),
      Item(invoiceBucket, <<0, 1>>, Leaf(OldInvoice(<<77, 78>>, 9))),
      Item(invoiceBucket, <<0, 2>>, Leaf(<<3, 1>>)),
      Item(invoiceBucket, <<112, 104>>, Nested(EmptyBucket)) }

ForwardItems ==
    { Exists(forwardingLogBucket),
      Item(forwardingLogBucket, PutUint64(10), Leaf(OldEvent(5, 4))),
      Item(forwardingLogBucket, PutUint64(20), Leaf(OldEvent(8, 6))),
      Item(forwardingLogBucket, PutUint64(15), Leaf(<<1>>)),
      Item(forwardingLogBucket, <<1>>, Nested(EmptyBucket)) }

Items == NodeItems \cup EdgeItems \cup PaymentItems \cup InvoiceItems \cup ForwardItems

\* The subsets of S of at most n elements.
RECURSIVE SubsetsUpTo(_, _)
SubsetsUpTo(S, n) ==
    IF n = 0 THEN {{}}
    ELSE LET P == SubsetsUpTo(S, n - 1)
         IN  P \cup {p \cup {x} : p \in P, x \in S}

\* Keys are unique within a bucket.
UniqueKeys(S) == \A i, j \in S : (i.b = j.b /\ i.k = j.k) => i = j

\* The root that holds the items of S.
BuildRoot(S) ==
    [n \in {i.b : i \in S} |->
        [k \in {i.k : i \in {j \in S : j.b = n /\ j.k # <<>>}} |->
            (CHOOSE i \in S : i.b = n /\ i.k = k).e]]

----------------------------------------------------------------------------
(* The orchestrator (specification 4.1): while a step is registered for    *)
(* the version marker, open a transaction, invoke the step, commit and     *)
(* advance the marker when it succeeds, roll back when it fails.           *)

TargetVersion == forwardEventWithType

StepLabels == {"nodesOpen", "nodes", "edges", "payments", "invoices", "log"}

\* The first position of the step registered for version v.
FirstLabel(v) ==
    IF v = nodeAndEdgeUpdateIndexVersion - 1 THEN "nodesOpen"
    ELSE IF v = invoiceWithChannelPointVersion - 1 THEN "payments"
    ELSE "log"

HasStep(v) == v < TargetVersion

\* The stores of at most n entries at version 0, no run begun.
InitUpTo(n) ==
    /\ \E S \in SubsetsUpTo(Items, n) :
          /\ UniqueKeys(S)
          /\ db = [ver |-> 0, root |-> BuildRoot(S)]
    /\ tx = db.root
    /\ pc = "loop"
    /\ step = 0
    /\ cursor = <<>>
    /\ result = "none"
    /\ run = 1
    /\ pre = db
    /\ runStart = db
    /\ invoked = <<>>
    /\ visited = <<>>
    /\ decoded = {}
    /\ failedAt = <<>>

Init == InitUpTo(MaxItems)

\* The orchestrator opens a transaction and invokes the step registered
\* for the marker.
Begin ==
    /\ pc = "loop"
    /\ HasStep(db.ver)
    /\ tx' = db.root
    /\ pre' = db
    /\ step' = db.ver
    /\ invoked' = Append(invoked, db.ver)
    /\ pc' = FirstLabel(db.ver)
    /\ cursor' = <<>>
    /\ result' = "none"
    /\ visited' = <<>>
    /\ decoded' = {}
    /\ failedAt' = <<>>
    /\ UNCHANGED <<db, run, runStart>>

\* No step is registered for the marker: the run ends.
Finish ==
    /\ pc = "loop"
    /\ ~HasStep(db.ver)
    /\ pc' = "done"
    /\ UNCHANGED <<db, tx, step, cursor, result, run, pre, runStart, invoked,
                   visited, decoded, failedAt>>

\* Faulty variant of Commit: the run ends after the first step it commits.
CommitEndsRun ==
    /\ pc = "return"
    /\ result = "ok"
    /\ db' = [ver |-> db.ver + 1, root |-> tx]
    /\ pc' = "done"
    /\ UNCHANGED <<tx, step, cursor, result, run, pre, runStart, invoked,
                   visited, decoded, failedAt>>

\* The step returned nil: commit and advance the marker.
Commit ==
    /\ pc = "return"
    /\ result = "ok"
    /\ db' = [ver |-> db.ver + 1, root |-> tx]
    /\ pc' = "loop"
    /\ UNCHANGED <<tx, step, cursor, result, run, pre, runStart, invoked,
                   visited, decoded, failedAt>>

\* The step returned an error: roll back; the error ends the run.
Rollback ==
    /\ pc = "return"
    /\ result = "error"
    /\ tx' = db.root
    /\ pc' = "failed"
    /\ UNCHANGED <<db, step, cursor, result, run, pre, runStart, invoked,
                   visited, decoded, failedAt>>

\* The step panicked: the transaction is never committed and the process
\* ends.
Crash ==
    /\ pc = "return"
    /\ result = "panic"
    /\ tx' = db.root
    /\ pc' = "crashed"
    /\ UNCHANGED <<db, step, cursor, result, run, pre, runStart, invoked,
                   visited, decoded, failedAt>>

\* The orchestrator is run again on the store the last run left.
Rerun ==
    /\ pc \in {"done", "failed", "crashed"}
    /\ run < MaxRuns
    /\ run' = run + 1
    /\ runStart' = db
    /\ invoked' = <<>>
    /\ pc' = "loop"
    /\ result' = "none"
    /\ visited' = <<>>
    /\ decoded' = {}
    /\ failedAt' = <<>>
    /\ cursor' = <<>>
    /\ UNCHANGED <<db, tx, step, pre>>

----------------------------------------------------------------------------
(* The steps.                                                              *)

\* Faulty variant of Visit: the visitor's writes go to the committed store
\* at once instead of staying in the open transaction.
VisitWritesThrough(b, o) ==
    /\ tx' = o.root
    /\ cursor' = NextKey(tx[b], cursor)
    /\ visited' = Append(visited, <<b, NextKey(tx[b], cursor)>>)
    /\ decoded' = decoded \cup o.dec
    /\ IF o.res = "ok"
       THEN UNCHANGED <<pc, result, failedAt>>
       ELSE /\ pc' = "return"
            /\ result' = o.res
            /\ failedAt' = <<b, NextKey(tx[b], cursor)>>
    /\ db' = [db EXCEPT !.root = o.root]
    /\ UNCHANGED <<step, run, pre, runStart, invoked>>

\* One call of a visitor by ForEach on bucket b: the outcome o of the
\* visitor on the next key.  An error or a panic ends the step.
Visit(b, o) ==
    /\ tx' = o.root
    /\ cursor' = NextKey(tx[b], cursor)
    /\ visited' = Append(visited, <<b, NextKey(tx[b], cursor)>>)
    /\ decoded' = decoded \cup o.dec
    /\ IF o.res = "ok"
       THEN UNCHANGED <<pc, result, failedAt>>
       ELSE /\ pc' = "return"
            /\ result' = o.res
            /\ failedAt' = <<b, NextKey(tx[b], cursor)>>
    /\ UNCHANGED <<db, step, run, pre, runStart, invoked>>

\* The step moves to position p, to result r when p is "return".
Goto(p, r) ==
    /\ pc' = p
    /\ result' = r
    /\ cursor' = <<>>
    /\ UNCHANGED <<db, step, run, pre, runStart, invoked, visited, decoded, failedAt>>

\* migrateNodeAndEdgeUpdateIndex: create the node bucket and its index.
NodesOpen ==
    /\ pc = "nodesOpen"
    /\ IF CreateFails(RootCreate(tx, nodeBucket)[nodeBucket], nodeUpdateIndexBucket)
       THEN /\ UNCHANGED tx
            /\ Goto("return", "error")
       ELSE /\ tx' = [RootCreate(tx, nodeBucket) EXCEPT ![nodeBucket] =
                         CreateBucketIfNotExists(@, nodeUpdateIndexBucket)]
            /\ Goto("nodes", "none")

NodeVisit ==
    /\ pc = "nodes"
    /\ HasNext(tx[nodeBucket], cursor)
    /\ Visit(nodeBucket, nodeVisitor(tx, NextKey(tx[nodeBucket], cursor)))

\* The node scan is over: create the edge bucket and its index.
EdgesOpen ==
    /\ pc = "nodes"
    /\ ~HasNext(tx[nodeBucket], cursor)
    /\ IF CreateFails(RootCreate(tx, edgeBucket)[edgeBucket], edgeUpdateIndexBucket)
       THEN /\ UNCHANGED tx
            /\ Goto("return", "error")
       ELSE /\ tx' = [RootCreate(tx, edgeBucket) EXCEPT ![edgeBucket] =
                         CreateBucketIfNotExists(@, edgeUpdateIndexBucket)]
            /\ Goto("edges", "none")

EdgeVisit ==
    /\ pc = "edges"
    /\ HasNext(tx[edgeBucket], cursor)
    /\ Visit(edgeBucket, edgeVisitor(tx, NextKey(tx[edgeBucket], cursor)))

\* Faulty variant of IndexReturn: the step records its own version in the
\* marker before it returns.
IndexReturnSetsMarker ==
    /\ pc = "edges"
    /\ ~HasNext(tx[edgeBucket], cursor)
    /\ pc' = "return"
    /\ result' = "ok"
    /\ cursor' = <<>>
    /\ db' = [db EXCEPT !.ver = nodeAndEdgeUpdateIndexVersion]
    /\ UNCHANGED <<tx, step, run, pre, runStart, invoked, visited, decoded,
                   failedAt>>

\* The edge scan is over: return nil.
IndexReturn ==
    /\ pc = "edges"
    /\ ~HasNext(tx[edgeBucket], cursor)
    /\ UNCHANGED tx
    /\ Goto("return", "ok")

\* migrateAddInvoiceWithChannelPoint: the payment scan, when the bucket
\* exists.
PaymentVisit ==
    /\ pc = "payments"
    /\ HasBucket(tx, paymentBucket)
    /\ HasNext(tx[paymentBucket], cursor)
    /\ Visit(paymentBucket, paymentVisitor(tx, NextKey(tx[paymentBucket], cursor)))

\* No payment bucket, or its scan is over: on to the invoices.
InvoicesOpen ==
    /\ pc = "payments"
    /\ ~(HasBucket(tx, paymentBucket) /\ HasNext(tx[paymentBucket], cursor))
    /\ UNCHANGED tx
    /\ Goto("invoices", "none")

InvoiceVisit ==
    /\ pc = "invoices"
    /\ HasBucket(tx, invoiceBucket)
    /\ HasNext(tx[invoiceBucket], cursor)
    /\ Visit(invoiceBucket, invoiceVisitor(tx, NextKey(tx[invoiceBucket], cursor)))

\* No invoice bucket, or its scan is over: return nil.
ReencodeReturn ==
    /\ pc = "invoices"
    /\ ~(HasBucket(tx, invoiceBucket) /\ HasNext(tx[invoiceBucket], cursor))
    /\ UNCHANGED tx
    /\ Goto("return", "ok")

\* migrateAddTypeToForwardEvent: the scan of the log, when it exists.
ForwardVisit ==
    /\ pc = "log"
    /\ HasBucket(tx, forwardingLogBucket)
    /\ HasNext(tx[forwardingLogBucket], cursor)
    /\ Visit(forwardingLogBucket,
             forwardVisitor(tx, NextKey(tx[forwardingLogBucket], cursor)))

\* Faulty variant of ForwardReturn: the log bucket is created when it does
\* not exist, as the index step creates its buckets.
ForwardReturnCreates ==
    /\ pc = "log"
    /\ ~(HasBucket(tx, forwardingLogBucket) /\ HasNext(tx[forwardingLogBucket], cursor))
    /\ tx' = RootCreate(tx, forwardingLogBucket)
    /\ Goto("return", "ok")

\* No log bucket, or its scan is over: return nil.
ForwardReturn ==
    /\ pc = "log"
    /\ ~(HasBucket(tx, forwardingLogBucket) /\ HasNext(tx[forwardingLogBucket], cursor))
    /\ UNCHANGED tx
    /\ Goto("return", "ok")

Next ==
    \/ Begin
    \/ Finish
    \/ Commit
    \/ Rollback
    \/ Crash
    \/ Rerun
    \/ NodesOpen
    \/ NodeVisit
    \/ EdgesOpen
    \/ EdgeVisit
    \/ IndexReturn
    \/ PaymentVisit
    \/ InvoicesOpen
    \/ InvoiceVisit
    \/ ReencodeReturn
    \/ ForwardVisit
    \/ ForwardReturn

Spec == Init /\ [][Next]_vars

\* The first application of migrateNodeAndEdgeUpdateIndex to a store.
Apply ==
    /\ invoked = <<>>
    /\ Begin

\* migrateNodeAndEdgeUpdateIndex is applied a second time, to the store its
\* first application produced.
Reapply ==
    /\ pc = "loop"
    /\ invoked = <<nodeAndEdgeUpdateIndexVersion - 1>>
    /\ result = "ok"
    /\ tx' = db.root
    /\ pre' = db
    /\ step' = nodeAndEdgeUpdateIndexVersion - 1
    /\ invoked' = Append(invoked, nodeAndEdgeUpdateIndexVersion - 1)
    /\ pc' = FirstLabel(nodeAndEdgeUpdateIndexVersion - 1)
    /\ cursor' = <<>>
    /\ result' = "none"
    /\ visited' = <<>>
    /\ decoded' = {}
    /\ failedAt' = <<>>
    /\ UNCHANGED <<db, run, runStart>>

ReapplyNext ==
    \/ Apply
    \/ Reapply
    \/ Commit
    \/ Rollback
    \/ Crash
    \/ NodesOpen
    \/ NodeVisit
    \/ EdgesOpen
    \/ EdgeVisit
    \/ IndexReturn

\* The index step applied to a store and then to its own output.
SpecReapply == Init /\ [][ReapplyNext]_vars

\* The statements of a step: the function the orchestrator has called runs
\* on, one visitor call after the other, until it returns.
StepNext ==
    \/ NodesOpen
    \/ NodeVisit
    \/ EdgesOpen
    \/ EdgeVisit
    \/ IndexReturn
    \/ PaymentVisit
    \/ InvoicesOpen
    \/ InvoiceVisit
    \/ ReencodeReturn
    \/ ForwardVisit
    \/ ForwardReturn

\* The runs, on stores of at most MaxFairItems entries, in which a step that
\* can take its next statement takes it.
FairSpec == InitUpTo(MaxFairItems) /\ [][Next]_vars /\ WF_vars(StepNext)

----------------------------------------------------------------------------
(* Vocabulary of the properties.                                           *)

Last(s) == s[Len(s)]

\* The step invoked last has ended and the orchestrator has dealt with it.
Concluded(v) == step = v /\ result # "none" /\ pc \in {"loop", "done", "failed", "crashed"}

\* The step invoked last succeeded and was committed.
Succeeded(v) == step = v /\ result = "ok" /\ pc \in {"loop", "done"}

\* The bucket b of a root, empty when the root has none.
BucketOf(root, b) == IF HasBucket(root, b) THEN root[b] ELSE EmptyBucket

\* The sub-bucket sub of bucket b of a root, empty when there is none.
SubBucketOf(root, b, sub) ==
    IF sub \in DOMAIN BucketOf(root, b) /\ BucketOf(root, b)[sub].kind = "bucket"
    THEN BucketOf(root, b)[sub].sub
    ELSE EmptyBucket

\* The entry under key k of bucket b, as the store held it when the step
\* began, makes its visitor's decode or put fail.
FailsAt(b, k) ==
    LET bucket == BucketOf(pre.root, b)
        v == ValueOf(bucket[k])
    IN  /\ k \in DOMAIN bucket
        /\ \/ /\ b = nodeBucket
              /\ Len(k) = NodeKeyLen
              /\ Len(v) >= TimeLen
              /\ PutFails(SubBucketOf(pre.root, b, nodeUpdateIndexBucket),
                          SubSeq(v, 1, TimeLen) \o k)
           \/ /\ b = edgeBucket
              /\ Len(k) = EdgeKeyLen
              /\ ~deserializeChanEdgePolicy(v).ok
           \/ /\ b = paymentBucket
              /\ ~IsNil(bucket[k])
              /\ ~deserializeOutgoingPayment(v, nodeAndEdgeUpdateIndexVersion).ok
           \/ /\ b = invoiceBucket
              /\ ~IsNil(bucket[k])
              /\ ~deserializeInvoice(v, nodeAndEdgeUpdateIndexVersion).ok
           \/ /\ b = forwardingLogBucket
              /\ ~decodeForwardingEvent(v, ZeroEvent, forwardEventWithType - 1).ok

----------------------------------------------------------------------------
(* C1  Atomicity.  In every step, an entry whose decode or put fails is    *)
(* the last one the step visits; the step returns an error, it is never    *)
(* committed, and once the orchestrator has rolled back, the whole store   *)
(* (every bucket, every entry, the version marker) is the store the step   *)
(* began on.                                                               *)
C1_Atomicity ==
    /\ \A i \in 1..Len(visited) :
          FailsAt(visited[i][1], visited[i][2]) =>
             /\ i = Len(visited)
             /\ failedAt = visited[i]
             /\ result = "error"
             /\ pc \in {"return", "failed"}
             /\ db = pre
    /\ pc \in {"failed", "crashed"} => db = pre /\ tx = pre.root

\* A step that had written index entries for the nodes failed on an edge
\* policy and was rolled back.
C1_Witness ==
    /\ pc = "failed"
    /\ step = nodeAndEdgeUpdateIndexVersion - 1
    /\ failedAt # <<>>
    /\ failedAt[1] = edgeBucket
    /\ \E i \in 1..Len(visited) :
          /\ visited[i][1] = nodeBucket
          /\ Len(visited[i][2]) = NodeKeyLen

(* C2  Step order.  Within a run the steps are invoked in ascending        *)
(* version order, one version after the other from the marker the run      *)
(* began on: none twice, none skipped.  The marker never decreases, it is  *)
(* the version of the step invoked last plus one when that step was        *)
(* committed, and a step that decodes with prior version V runs only on a  *)
(* store whose marker is V.                                                *)
C2_StepOrder ==
    /\ \A i \in 1..Len(invoked) : invoked[i] = runStart.ver + i - 1
    /\ db.ver >= pre.ver
    /\ pre.ver >= 0
    /\ db.ver = runStart.ver + Len(invoked) - (IF pc \in {"loop", "done"} THEN 0 ELSE 1)
    /\ invoked # <<>> =>
          /\ step = Last(invoked)
          /\ pre.ver = step
          /\ db.ver = (IF pc \in {"loop", "done"} THEN step + 1 ELSE step)
    /\ \A a \in decoded : a.ver # -1 => a.ver = pre.ver

\* All three steps were invoked in one run, and the last one decoded.
C2_Witness ==
    /\ Len(invoked) = TargetVersion
    /\ pc = "done"
    /\ \E a \in decoded : a.ver = forwardEventWithType - 1

(* C3  Idempotence of the orchestrator.  A run that follows another        *)
(* changes neither the marker nor any bucket; when the run before it       *)
(* brought the marker to the target version, it invokes no step.           *)
C3_Idempotent ==
    run >= 2 =>
       /\ db = runStart
       /\ runStart.ver = TargetVersion =>
             /\ invoked = <<>>
             /\ pc \in {"loop", "done"}

\* The second run has ended on a store the first run migrated, forwarding
\* log included.
C3_Witness ==
    /\ run = 2
    /\ pc = "done"
    /\ db.ver = TargetVersion
    /\ LeafKeys(BucketOf(db.root, forwardingLogBucket)) # {}
    /\ SubBucketOf(db.root, nodeBucket, nodeUpdateIndexBucket) # EmptyBucket

----------------------------------------------------------------------------
(* The two indexes.                                                        *)

NodeIndex(root) == SubBucketOf(root, nodeBucket, nodeUpdateIndexBucket)

EdgeIndex(root) == SubBucketOf(root, edgeBucket, edgeUpdateIndexBucket)

\* The entries of a bucket whose key is n bytes long.
KeysOfLen(bucket, n) == {k \in DOMAIN bucket : Len(k) = n}

\* The timestamp prefix of an index key, and what follows it.
Prefix(x) == SubSeq(x, 1, TimeLen)

Suffix(x) == SubSeq(x, TimeLen + 1, Len(x))

\* Up to the first 8 bytes of a value.
FirstBytes(v) == SubSeq(v, 1, Min(TimeLen, Len(v)))

\* The index holds key x with the empty value.
Indexed(index, x) == x \in DOMAIN index /\ index[x] = Leaf(<<>>)

\* The update time of the policy stored under an edge key, and the
\* channel identifier in the key.
PolicyOf(root, k) == deserializeChanEdgePolicy(ValueOf(root[edgeBucket][k]))

ChanOf(k) == SubSeq(k, Len(k) - TimeLen + 1, Len(k))

EdgeKeyFor(root, k) == PutUint64(PolicyOf(root, k).LastUpdate) \o ChanOf(k)

\* The index holds the entry of every 41-byte key of the edge bucket, and
\* no other entry.
EdgeIndexCovers(root) ==
    /\ \A k \in KeysOfLen(root[edgeBucket], EdgeKeyLen) :
          /\ ~IsNil(root[edgeBucket][k])
          /\ PolicyOf(root, k).ok
          /\ Indexed(EdgeIndex(root), EdgeKeyFor(root, k))
    /\ \A x \in DOMAIN EdgeIndex(root) :
          \E k \in KeysOfLen(root[edgeBucket], EdgeKeyLen) : x = EdgeKeyFor(root, k)

(* C5 as claimed: after the step succeeds on a store whose edge index was  *)
(* empty, the index holds the entry (update time || trailing 8 bytes of    *)
(* the key) of every 41-byte-key record and no other, and distinct         *)
(* records have distinct entries: as many entries as records.              *)
C5_OneToOne ==
    (Succeeded(nodeAndEdgeUpdateIndexVersion - 1) /\ EdgeIndex(pre.root) = EmptyBucket) =>
       /\ EdgeIndexCovers(db.root)
       /\ Cardinality(DOMAIN EdgeIndex(db.root)) =
             Cardinality(KeysOfLen(db.root[edgeBucket], EdgeKeyLen))

(* C5 as amended.  After the step succeeds on a store whose edge index     *)
(* was empty, the index holds the entry (update time || trailing 8 bytes   *)
(* of the key) of every 41-byte-key record and no other.  Two records have *)
(* the same entry exactly when they have the same channel identifier and   *)
(* the same update time (the two policies of one channel, updated at the   *)
(* same time), so the index has at most as many entries as there are       *)
(* records.                                                                *)
C5_EdgeIndex ==
    (Succeeded(nodeAndEdgeUpdateIndexVersion - 1) /\ EdgeIndex(pre.root) = EmptyBucket) =>
       /\ EdgeIndexCovers(db.root)
       /\ Cardinality(DOMAIN EdgeIndex(db.root)) <=
             Cardinality(KeysOfLen(db.root[edgeBucket], EdgeKeyLen))
       /\ \A k1, k2 \in KeysOfLen(db.root[edgeBucket], EdgeKeyLen) :
             (EdgeKeyFor(db.root, k1) = EdgeKeyFor(db.root, k2)) <=>
                /\ ChanOf(k1) = ChanOf(k2)
                /\ PolicyOf(db.root, k1).LastUpdate = PolicyOf(db.root, k2).LastUpdate

\* The step succeeded on the two policies of one channel and on a policy
\* of another channel: three records, two index entries.
C5_Witness ==
    /\ Succeeded(nodeAndEdgeUpdateIndexVersion - 1)
    /\ EdgeIndex(pre.root) = EmptyBucket
    /\ Cardinality(KeysOfLen(db.root[edgeBucket], EdgeKeyLen)) = 3
    /\ Cardinality(DOMAIN EdgeIndex(db.root)) = 2

\* Key order of an index agrees with the order of the timestamps.
Chronological(index) ==
    \A x, y \in DOMAIN index :
       LexLess(x, y) => Uint64(Prefix(x)) <= Uint64(Prefix(y))

(* C6  Index ordering.  After the step succeeds, each record's entry       *)
(* carries the record's update time as its 8-byte big-endian prefix,       *)
(* before the identity of the record, and in both indexes the entries in   *)
(* key order have non-decreasing timestamps.                               *)
C6_IndexOrdering ==
    Succeeded(nodeAndEdgeUpdateIndexVersion - 1) =>
       /\ Chronological(NodeIndex(db.root))
       /\ Chronological(EdgeIndex(db.root))
       /\ \A k \in KeysOfLen(db.root[nodeBucket], NodeKeyLen) :
             \E x \in DOMAIN NodeIndex(db.root) :
                /\ Suffix(x) = k
                /\ Uint64(Prefix(x)) = Uint64(Prefix(db.root[nodeBucket][k].val))
       /\ \A k \in KeysOfLen(db.root[edgeBucket], EdgeKeyLen) :
             \E x \in DOMAIN EdgeIndex(db.root) :
                /\ Suffix(x) = ChanOf(k)
                /\ Uint64(Prefix(x)) = PolicyOf(db.root, k).LastUpdate

\* The record scanned first was updated last: its entry is the later one
\* in the index.
C6_Witness ==
    /\ Succeeded(nodeAndEdgeUpdateIndexVersion - 1)
    /\ \E k1, k2 \in KeysOfLen(db.root[edgeBucket], EdgeKeyLen) :
          /\ LexLess(k1, k2)
          /\ PolicyOf(db.root, k1).LastUpdate > PolicyOf(db.root, k2).LastUpdate
          /\ LexLess(EdgeKeyFor(db.root, k2), EdgeKeyFor(db.root, k1))
          /\ EdgeKeyFor(db.root, k1) \in DOMAIN EdgeIndex(db.root)
          /\ EdgeKeyFor(db.root, k2) \in DOMAIN EdgeIndex(db.root)
    /\ Cardinality(DOMAIN NodeIndex(db.root)) >= 1

\* The next entry of the scan of bucket b has a key that is not n bytes
\* long.
ForeignNext(position, b, n) ==
    /\ pc = position
    /\ HasNext(tx[b], cursor)
    /\ Len(NextKey(tx[b], cursor)) # n

(* C7  Skip on foreign keys.  In migrateNodeAndEdgeUpdateIndex the visit   *)
(* of an entry of the node bucket whose key is not 33 bytes long, or of    *)
(* the edge bucket whose key is not 41 bytes long (the index buckets       *)
(* themselves included), changes nothing in the store, neither reads nor   *)
(* decodes the value, raises no error, and the scan goes on.               *)
C7_SkipForeignKeys ==
    [][ (ForeignNext("nodes", nodeBucket, NodeKeyLen)
            \/ ForeignNext("edges", edgeBucket, EdgeKeyLen)) =>
           /\ tx' = tx
           /\ db' = db
           /\ decoded' = decoded
           /\ failedAt' = failedAt
           /\ result' = result
           /\ pc' = pc
           /\ Len(visited') = Len(visited) + 1 ]_vars

\* The step succeeded after visiting the node index bucket and a leaf of
\* another width in the node bucket, and the edge index bucket.
C7_Witness ==
    /\ Succeeded(nodeAndEdgeUpdateIndexVersion - 1)
    /\ \E i, j, l \in 1..Len(visited) :
          /\ visited[i] = <<nodeBucket, nodeUpdateIndexBucket>>
          /\ visited[j][1] = nodeBucket
          /\ Len(visited[j][2]) # NodeKeyLen
          /\ ~IsNil(db.root[nodeBucket][visited[j][2]])
          /\ visited[l] = <<edgeBucket, edgeUpdateIndexBucket>>

----------------------------------------------------------------------------
(* The re-encoded records.                                                 *)

ReencodedBuckets == {paymentBucket, invoiceBucket}

\* The bytes v decode as a record of bucket b under a version.
DecodesAs(b, v, version) ==
    IF b = paymentBucket
    THEN deserializeOutgoingPayment(v, version).ok
    ELSE deserializeInvoice(v, version).ok

\* Every leaf of the payment and invoice buckets of the store is the leaf
\* the step began on.
AllPrior ==
    \A b \in ReencodedBuckets :
       /\ DOMAIN BucketOf(db.root, b) = DOMAIN BucketOf(pre.root, b)
       /\ \A k \in LeafKeys(BucketOf(db.root, b)) : db.root[b][k] = pre.root[b][k]

\* Every leaf of the payment and invoice buckets of the store is in the
\* new encoding.
AllNew ==
    \A b \in ReencodedBuckets :
       \A k \in LeafKeys(BucketOf(db.root, b)) :
          DecodesAs(b, db.root[b][k].val, invoiceWithChannelPointVersion)

(* C8  No mixed formats.  From the moment the payment/invoice step is      *)
(* invoked, the committed store holds the leaves of the payment and the    *)
(* invoice bucket either all as they were before the step (the step has    *)
(* not succeeded) or all in the new encoding (the step was committed); a   *)
(* failure on an invoice leaves the payments as they were.                 *)
C8_NoMixedFormats ==
    step = invoiceWithChannelPointVersion - 1 =>
       IF Succeeded(invoiceWithChannelPointVersion - 1)
       THEN AllNew
       ELSE AllPrior /\ db = pre

\* The step had re-encoded a payment, failed on an invoice and was rolled
\* back.
C8_Witness ==
    /\ step = invoiceWithChannelPointVersion - 1
    /\ pc = "failed"
    /\ failedAt # <<>>
    /\ failedAt[1] = invoiceBucket
    /\ \E i \in 1..Len(visited) :
          /\ visited[i][1] = paymentBucket
          /\ ~IsNil(db.root[paymentBucket][visited[i][2]])
          /\ DecodesAs(paymentBucket, db.root[paymentBucket][visited[i][2]].val,
                       nodeAndEdgeUpdateIndexVersion)

\* The invoice new is invoice old with the channel point at its default.
UpgradedInvoice(old, new) ==
    /\ new.Memo = old.Memo
    /\ new.Value = old.Value
    /\ new.ChannelPoint = <<>>

(* C9  Re-encoding round trip.  After migrateAddInvoiceWithChannelPoint    *)
(* succeeds, the payment and the invoice bucket have the keys they had,    *)
(* nested buckets are as they were, and the value under every leaf key     *)
(* decodes under the new version to the record the original bytes decode   *)
(* to under the prior version, field by field, with the channel point      *)
(* empty.                                                                  *)
C9_RoundTrip ==
    Succeeded(invoiceWithChannelPointVersion - 1) =>
       /\ DOMAIN db.root = DOMAIN pre.root
       /\ \A b \in ReencodedBuckets \cap DOMAIN db.root :
             /\ DOMAIN db.root[b] = DOMAIN pre.root[b]
             /\ \A k \in DOMAIN db.root[b] :
                   IsNil(pre.root[b][k]) => db.root[b][k] = pre.root[b][k]
       /\ \A k \in LeafKeys(BucketOf(pre.root, paymentBucket)) :
             LET old == deserializeOutgoingPayment(pre.root[paymentBucket][k].val,
                                                   nodeAndEdgeUpdateIndexVersion)
                 new == deserializeOutgoingPayment(db.root[paymentBucket][k].val,
                                                   invoiceWithChannelPointVersion)
             IN  /\ old.ok
                 /\ new.ok
                 /\ UpgradedInvoice(old.pay.Invoice, new.pay.Invoice)
                 /\ new.pay.Fee = old.pay.Fee
       /\ \A k \in LeafKeys(BucketOf(pre.root, invoiceBucket)) :
             LET old == deserializeInvoice(pre.root[invoiceBucket][k].val,
                                           nodeAndEdgeUpdateIndexVersion)
                 new == deserializeInvoice(db.root[invoiceBucket][k].val,
                                           invoiceWithChannelPointVersion)
             IN  /\ old.ok
                 /\ new.ok
                 /\ new.rest = <<>>
                 /\ UpgradedInvoice(old.inv, new.inv)

\* The step succeeded on a payment and an invoice.
C9_Witness ==
    /\ Succeeded(invoiceWithChannelPointVersion - 1)
    /\ LeafKeys(BucketOf(pre.root, paymentBucket)) # {}
    /\ LeafKeys(BucketOf(pre.root, invoiceBucket)) # {}
    /\ db.root[paymentBucket] # pre.root[paymentBucket]

(* C10  Forwarding-event backfill.  After migrateAddTypeToForwardEvent     *)
(* succeeds, the forwarding log has the keys it had, and every entry of    *)
(* it, none skipped, is a leaf in the new encoding whose type is           *)
(* SuccessForward and whose other fields are those of the original bytes   *)
(* decoded under the prior version.                                        *)
C10_Backfill ==
    Succeeded(forwardEventWithType - 1) =>
       /\ DOMAIN db.root = DOMAIN pre.root
       /\ DOMAIN BucketOf(db.root, forwardingLogBucket) =
             DOMAIN BucketOf(pre.root, forwardingLogBucket)
       /\ \A k \in DOMAIN BucketOf(db.root, forwardingLogBucket) :
             LET old == decodeForwardingEvent(ValueOf(pre.root[forwardingLogBucket][k]),
                                              ZeroEvent, forwardEventWithType - 1)
                 new == decodeForwardingEvent(ValueOf(db.root[forwardingLogBucket][k]),
                                              ZeroEvent, forwardEventWithType)
             IN  /\ ~IsNil(db.root[forwardingLogBucket][k])
                 /\ old.ok
                 /\ new.ok
                 /\ new.event.Type = SuccessForward
                 /\ new.event.AmtIn = old.event.AmtIn
                 /\ new.event.AmtOut = old.event.AmtOut

\* The step succeeded on a log of two events.
C10_Witness ==
    /\ Succeeded(forwardEventWithType - 1)
    /\ Cardinality(DOMAIN BucketOf(db.root, forwardingLogBucket)) = 2
    /\ db.root[forwardingLogBucket] # pre.root[forwardingLogBucket]

----------------------------------------------------------------------------
(* Missing buckets and nil values.                                         *)

\* The step invoked last is running or has returned.
InStep == pc \in StepLabels \cup {"return"}

(* C11  A missing source bucket is a successful no-op.  When the           *)
(* forwarding log does not exist, migrateAddTypeToForwardEvent visits      *)
(* nothing, returns nil and leaves every bucket as it was, the log still   *)
(* missing.  migrateAddInvoiceWithChannelPoint never creates the payment   *)
(* or the invoice bucket; an error of it comes from an entry of a bucket   *)
(* that exists, and when it succeeds with one of the two missing, the      *)
(* leaves of the other are re-encoded.                                     *)
C11_MissingBucket ==
    /\ (step = forwardEventWithType - 1 /\ ~HasBucket(pre.root, forwardingLogBucket)) =>
          /\ visited = <<>>
          /\ result \in {"none", "ok"}
          /\ tx = pre.root
          /\ db.root = pre.root
          /\ pc \notin {"failed", "crashed"}
    /\ step = invoiceWithChannelPointVersion - 1 =>
          /\ \A b \in ReencodedBuckets :
                ~HasBucket(pre.root, b) =>
                   /\ ~HasBucket(tx, b)
                   /\ ~HasBucket(db.root, b)
                   /\ \A i \in 1..Len(visited) : visited[i][1] # b
          /\ result \in {"error", "panic"} =>
                /\ result = "error"
                /\ failedAt # <<>>
                /\ HasBucket(pre.root, failedAt[1])
          /\ (\A b \in ReencodedBuckets : ~HasBucket(pre.root, b)) =>
                /\ result \in {"none", "ok"}
                /\ tx = pre.root
          /\ Succeeded(invoiceWithChannelPointVersion - 1) => AllNew

\* Both steps succeeded on a store without payment bucket and without
\* forwarding log, and the invoice of the store was re-encoded.
C11_Witness ==
    /\ Succeeded(forwardEventWithType - 1)
    /\ ~HasBucket(db.root, forwardingLogBucket)
    /\ ~HasBucket(db.root, paymentBucket)
    /\ \E k \in LeafKeys(BucketOf(db.root, invoiceBucket)) :
          DecodesAs(invoiceBucket, db.root[invoiceBucket][k].val,
                    invoiceWithChannelPointVersion)

\* The entry under key k of bucket b of the open transaction is a nested
\* bucket: ForEach hands the visitor a nil value.
NilEntry(b, k) ==
    /\ k \in DOMAIN BucketOf(tx, b)
    /\ IsNil(tx[b][k])

(* C12 as claimed: in every scan, the visit of an entry whose value is     *)
(* nil returns without error, neither reads nor decodes the value and      *)
(* writes nothing, whatever the length of the key.                         *)
C12_NilNeverDecoded ==
    InStep =>
       \A i \in 1..Len(visited) :
          NilEntry(visited[i][1], visited[i][2]) =>
             /\ failedAt # visited[i]
             /\ \A a \in decoded : ~(a.b = visited[i][1] /\ a.k = visited[i][2])

----------------------------------------------------------------------------
(* Isolation and the version marker.                                       *)

(* C13  Isolation.  What a concurrent reader sees is the committed store   *)
(* db.  While a step runs or has returned without being committed, db is   *)
(* the store the step began on, whatever the step has written into its     *)
(* transaction; once db differs from it, the step has succeeded, db holds  *)
(* everything the step wrote and the marker is one higher.  The old marker *)
(* is never paired with new content, nor the new marker with old content.  *)
C13_Isolation ==
    /\ InStep => db = pre
    /\ pc \in {"failed", "crashed"} => db = pre
    /\ db.ver = pre.ver => db.root = pre.root
    /\ db # pre =>
          /\ pc \in {"loop", "done"}
          /\ invoked # <<>> => Succeeded(step)
          /\ db.ver = pre.ver + 1
          /\ db.root = tx

\* A step is in the middle of a scan, its transaction already differs from
\* the store it began on, and the committed store is still that store.
C13_Witness ==
    /\ pc \in StepLabels
    /\ visited # <<>>
    /\ tx # pre.root
    /\ db = pre

(* C14  Only the orchestrator changes the version marker.  No transition   *)
(* taken while a step runs, whether it visits an entry, opens a bucket,    *)
(* or returns nil or an error, changes the marker or anything else of the  *)
(* committed store; the one transition that changes the marker is the      *)
(* orchestrator's commit of a step that returned nil, which adds one.      *)
C14_MarkerOwner ==
    [][/\ pc \in StepLabels => db' = db
       /\ db'.ver # db.ver =>
             /\ pc = "return"
             /\ result = "ok"
             /\ pc' = "loop"
             /\ db'.ver = db.ver + 1]_vars

\* A step has written into its transaction and returned an error, and the
\* marker is still the version the step was invoked for.
C14_Witness ==
    /\ pc = "return"
    /\ result = "error"
    /\ tx # pre.root
    /\ db.ver = step

----------------------------------------------------------------------------
(* The scans.                                                              *)

\* The transition is one call of a visitor by an active ForEach.
ScanStep == Len(visited') = Len(visited) + 1

\* The name of the index sub-bucket of a bucket of the index step.
IndexOf(b) == IF b = nodeBucket THEN nodeUpdateIndexBucket ELSE edgeUpdateIndexBucket

\* Entry new is entry old of an index sub-bucket with, at most, keys of
\* empty value put into it.
OnlyIndexPuts(old, new) ==
    /\ old.kind = "bucket"
    /\ new.kind = "bucket"
    /\ \A x \in DOMAIN old.sub : x \in DOMAIN new.sub /\ new.sub[x] = old.sub[x]
    /\ \A x \in DOMAIN new.sub \ DOMAIN old.sub : new.sub[x] = Leaf(<<>>)

(* C15  Mutation discipline during a scan.  A call of a visitor by ForEach *)
(* on bucket b with key k leaves the set of buckets of the store and the   *)
(* key set of every bucket as they were, b included, and turns no leaf     *)
(* into a bucket or a bucket into a leaf.  Every bucket other than b is    *)
(* untouched.  In b, the only entry that changes is, in the re-encoding    *)
(* steps, the leaf under k itself, and in the index step the index         *)
(* sub-bucket of b, which existed before the call and into which keys of   *)
(* empty value are put, none removed or changed.                           *)
C15_ScanDiscipline ==
    [][ScanStep =>
         LET b == Last(visited')[1]
             k == Last(visited')[2]
         IN  /\ DOMAIN tx' = DOMAIN tx
             /\ \A c \in DOMAIN tx \ {b} : tx'[c] = tx[c]
             /\ DOMAIN tx'[b] = DOMAIN tx[b]
             /\ \A j \in DOMAIN tx[b] :
                   /\ tx'[b][j].kind = tx[b][j].kind
                   /\ tx'[b][j] # tx[b][j] =>
                         IF step = nodeAndEdgeUpdateIndexVersion - 1
                         THEN /\ j = IndexOf(b)
                              /\ j # k
                              /\ OnlyIndexPuts(tx[b][j], tx'[b][j])
                         ELSE /\ j = k
                              /\ tx[b][j].kind = "leaf"]_vars

\* The node scan is active and has put two keys into the node index, which
\* was created before the scan began.
C15_Witness ==
    /\ pc = "nodes"
    /\ step = nodeAndEdgeUpdateIndexVersion - 1
    /\ Len(visited) >= 2
    /\ Cardinality(DOMAIN NodeIndex(tx)) >= 2

\* The keys of bucket b that visitors were called with before the last call.
VisitedBefore(b) ==
    {visited[i][2] : i \in {j \in 1..(Len(visited) - 1) : visited[j][1] = b}}

(* C16  Fail-fast.  The entry a step fails on is the last one it visits    *)
(* and the step's result is an error or a panic, never success; a step     *)
(* that succeeded visited no entry whose decode or put fails.  When the    *)
(* step returns, the failed entry and every entry that follows it in key   *)
(* order are as they were when the step began, every index key written     *)
(* belongs to an entry visited before the failed one, and no later phase   *)
(* has run: after a failure in the node scan the edge bucket is neither    *)
(* created nor scanned, after a failed payment no invoice is visited or    *)
(* written.                                                                *)
C16_FailFast ==
    /\ failedAt # <<>> =>
          /\ visited # <<>>
          /\ failedAt = Last(visited)
          /\ result \in {"error", "panic"}
          /\ pc \in {"return", "failed", "crashed"}
    /\ result = "ok" =>
          /\ failedAt = <<>>
          /\ \A i \in 1..Len(visited) : ~FailsAt(visited[i][1], visited[i][2])
    /\ (failedAt # <<>> /\ pc = "return") =>
          LET b == failedAt[1]
              k == failedAt[2]
          IN  /\ \A j \in DOMAIN tx[b] :
                    ((j = k \/ LexLess(k, j))
                        /\ ~(b \in {nodeBucket, edgeBucket} /\ j = IndexOf(b)))
                       => (j \in DOMAIN pre.root[b] /\ tx[b][j] = pre.root[b][j])
              /\ b = nodeBucket =>
                    /\ HasBucket(tx, edgeBucket) = HasBucket(pre.root, edgeBucket)
                    /\ BucketOf(tx, edgeBucket) = BucketOf(pre.root, edgeBucket)
                    /\ \A i \in 1..Len(visited) : visited[i][1] = nodeBucket
                    /\ \A x \in DOMAIN NodeIndex(tx) \ DOMAIN NodeIndex(pre.root) :
                          \E n \in VisitedBefore(nodeBucket) :
                             x = nodeIndexKey(n, ValueOf(pre.root[nodeBucket][n]))
              /\ b = edgeBucket =>
                    \A x \in DOMAIN EdgeIndex(tx) \ DOMAIN EdgeIndex(pre.root) :
                       \E e \in VisitedBefore(edgeBucket) :
                          /\ Len(e) = EdgeKeyLen
                          /\ x = EdgeKeyFor(pre.root, e)
              /\ b = paymentBucket =>
                    /\ BucketOf(tx, invoiceBucket) = BucketOf(pre.root, invoiceBucket)
                    /\ \A i \in 1..Len(visited) : visited[i][1] = paymentBucket

\* The step has returned the error of a payment that another payment
\* follows, on a store that holds an invoice.
C16_Witness ==
    /\ pc = "return"
    /\ result = "error"
    /\ failedAt # <<>>
    /\ failedAt[1] = paymentBucket
    /\ HasNext(tx[paymentBucket], failedAt[2])
    /\ LeafKeys(BucketOf(tx, invoiceBucket)) # {}

\* The buckets a step scans.
ScannedBy(v) ==
    IF v = nodeAndEdgeUpdateIndexVersion - 1 THEN {nodeBucket, edgeBucket}
    ELSE IF v = invoiceWithChannelPointVersion - 1 THEN {paymentBucket, invoiceBucket}
    ELSE {forwardingLogBucket}

\* The keys of bucket b that visitors were called with.
VisitedKeys(b) == {visited[i][2] : i \in {j \in 1..Len(visited) : visited[j][1] = b}}

\* No entry is visited twice; the entries visited are entries the scanned
\* bucket held when the step began, or the index sub-bucket itself, never a
\* key written by the step; a step that returns nil has visited every entry
\* of every bucket it scans.
VisitedOnce ==
    /\ \A i, j \in 1..Len(visited) :
          i < j =>
             /\ visited[i] # visited[j]
             /\ visited[i][1] = visited[j][1] => LexLess(visited[i][2], visited[j][2])
    /\ \A i \in 1..Len(visited) :
          /\ visited[i][1] \in ScannedBy(step)
          /\ \/ visited[i][2] \in DOMAIN BucketOf(pre.root, visited[i][1])
             \/ /\ step = nodeAndEdgeUpdateIndexVersion - 1
                /\ visited[i][2] = IndexOf(visited[i][1])
    /\ (pc = "return" /\ result = "ok") =>
          \A b \in ScannedBy(step) :
             /\ VisitedKeys(b) = DOMAIN BucketOf(tx, b)
             /\ Cardinality(VisitedKeys(b)) =
                   Cardinality({i \in 1..Len(visited) : visited[i][1] = b})

(* C17  One pass, then done.  A step that runs reaches its return, with    *)
(* nil, an error or a panic.  No entry is visited twice, so a value the    *)
(* visitor overwrote is not visited again; the keys put into an index      *)
(* sub-bucket are not visited as records; and a step that returns nil has  *)
(* visited every entry of each bucket it scans exactly once.               *)
C17_OnePass ==
    /\ []VisitedOnce
    /\ (pc \in StepLabels) ~> (pc = "return")

\* The edge scan has ended with success after two edges were indexed, the
\* index sub-bucket itself having been visited once as an entry of the
\* edge bucket.
C17_Witness ==
    /\ pc = "return"
    /\ result = "ok"
    /\ step = nodeAndEdgeUpdateIndexVersion - 1
    /\ Cardinality(DOMAIN EdgeIndex(tx)) >= 2
    /\ edgeUpdateIndexBucket \in VisitedKeys(edgeBucket)
    /\ Cardinality(VisitedKeys(edgeBucket)) >= 3

----------------------------------------------------------------------------
(* The index step applied twice, and its frame.                            *)

\* migrateNodeAndEdgeUpdateIndex is being applied, or has been applied, for
\* the second time.
Reapplied == Len(invoked) = 2

(* C18  The index step is idempotent.  Applied a second time, to the store *)
(* its first successful application produced, migrateNodeAndEdgeUpdateIndex *)
(* visits the entries of both buckets, never fails, and at every point of  *)
(* it the store in its transaction is the store the first application      *)
(* left: the same buckets, the same index keys, the same values.  It       *)
(* returns nil, and what is committed is that same store.                  *)
C18_ReapplyIdempotent ==
    Reapplied =>
       /\ pre.root = db.root
       /\ tx = pre.root
       /\ result \in {"none", "ok"}
       /\ failedAt = <<>>
       /\ pc \notin {"failed", "crashed"}
       /\ pc \in {"return", "loop"} =>
             /\ result = "ok"
             /\ VisitedKeys(nodeBucket) = DOMAIN tx[nodeBucket]
             /\ VisitedKeys(edgeBucket) = DOMAIN tx[edgeBucket]

\* The second application has returned nil on a store in which the first
\* one had indexed a node and an edge.
C18_Witness ==
    /\ Reapplied
    /\ pc = "return"
    /\ result = "ok"
    /\ NodeIndex(tx) # EmptyBucket
    /\ EdgeIndex(tx) # EmptyBucket
    /\ \E a \in decoded : a.b = edgeBucket

\* What the index step may have done to bucket b of the store it began on:
\* every entry other than the index sub-bucket is as it was, no key but the
\* name of the index sub-bucket is new, and the index sub-bucket has only
\* gained keys of empty value.
IndexFrame(b) ==
    LET old == BucketOf(pre.root, b)
        new == BucketOf(tx, b)
    IN  /\ HasBucket(pre.root, b) => HasBucket(tx, b)
        /\ DOMAIN old \subseteq DOMAIN new
        /\ DOMAIN new \subseteq DOMAIN old \cup {IndexOf(b)}
        /\ LeafKeys(new) = LeafKeys(old)
        /\ \A j \in DOMAIN old :
              \/ new[j] = old[j]
              \/ j = IndexOf(b) /\ OnlyIndexPuts(old[j], new[j])
        /\ \A j \in DOMAIN new \ DOMAIN old :
              OnlyIndexPuts(Nested(EmptyBucket), new[j])

\* What a re-encoding step may have done to the store it began on: the
\* buckets and the keys of every bucket are the same, a bucket the step
\* does not scan is untouched, and in a scanned bucket only values of
\* leaves differ.
ReencodeFrame ==
    /\ DOMAIN tx = DOMAIN pre.root
    /\ \A c \in DOMAIN tx :
          /\ c \notin ScannedBy(step) => tx[c] = pre.root[c]
          /\ DOMAIN tx[c] = DOMAIN pre.root[c]
          /\ \A j \in DOMAIN tx[c] :
                \/ tx[c][j] = pre.root[c][j]
                \/ tx[c][j].kind = "leaf" /\ pre.root[c][j].kind = "leaf"

(* C19  Frame of the steps.  migrateNodeAndEdgeUpdateIndex never changes,  *)
(* adds or removes a leaf of the node or the edge bucket, and touches no   *)
(* other bucket; all it does is create the node bucket, the edge bucket    *)
(* and their index sub-buckets where they do not exist, and put keys of    *)
(* empty value into the two index sub-buckets; when it succeeds, all four  *)
(* buckets exist, also on a store that was empty.  The two re-encoding     *)
(* steps create and delete no bucket and no key.                           *)
C19_Frame ==
    /\ step = nodeAndEdgeUpdateIndexVersion - 1 =>
          /\ IndexFrame(nodeBucket)
          /\ IndexFrame(edgeBucket)
          /\ DOMAIN tx \subseteq DOMAIN pre.root \cup {nodeBucket, edgeBucket}
          /\ \A c \in DOMAIN pre.root \ {nodeBucket, edgeBucket} :
                c \in DOMAIN tx /\ tx[c] = pre.root[c]
          /\ result = "ok" =>
                /\ HasBucket(tx, nodeBucket)
                /\ HasBucket(tx, edgeBucket)
                /\ nodeUpdateIndexBucket \in DOMAIN tx[nodeBucket]
                /\ IsNil(tx[nodeBucket][nodeUpdateIndexBucket])
                /\ edgeUpdateIndexBucket \in DOMAIN tx[edgeBucket]
                /\ IsNil(tx[edgeBucket][edgeUpdateIndexBucket])
    /\ step # nodeAndEdgeUpdateIndexVersion - 1 => ReencodeFrame

\* The index step has returned nil on a store that was empty: it created
\* the four buckets and nothing else.
C19_Witness ==
    /\ step = nodeAndEdgeUpdateIndexVersion - 1
    /\ pc = "return"
    /\ result = "ok"
    /\ DOMAIN pre.root = {}
    /\ DOMAIN tx = {nodeBucket, edgeBucket}
    /\ NodeIndex(tx) = EmptyBucket
    /\ EdgeIndex(tx) = EmptyBucket

====
